---- MODULE Spec2Model ----
(***************************************************************************)
(* A model of senza's two init templates:                                  *)
(*   senza/templates/postgresapp.py      (HA Postgres "spilo" stack)       *)
(*   senza/templates/webappmultiregion.py (multi-region HTTP app)          *)
(*                                                                         *)
(* Python values are tagged records, a dict is a function from its keys,   *)
(* a template is the sequence of its lexical pieces.                       *)
(***************************************************************************)
EXTENDS Integers, Sequences, FiniteSets, TLC

VARIABLES
    dv_in,        \* set_default_variables: the mapping the caller passed
    dv_vars,      \* set_default_variables: the dict object (mutated in place)
    dv_calls,     \* set_default_variables: how many times it has been applied
    rg_response,  \* get_latest_spilo_image: what the registry request yields
    rg_pc,        \* get_latest_spilo_image: "start" | "returned" | "raised"
    rg_result,    \* get_latest_spilo_image: the returned string, in pieces
    rn_template,  \* rendering: which template is rendered
    rn_vars,      \* rendering: the variable mapping
    rn_pc,        \* rendering: "start" | "rendered"
    rn_out,       \* rendering: the rendered text, in pieces
    pg_pc,        \* postgres gather: the step gather_user_variables is at
    pg_vars,      \* postgres gather: the variables dict
    pg_asked,     \* postgres gather: the keys the operator was prompted for
    pg_confirms,  \* postgres gather: the yes/no questions asked, with the answers
    pg_env,       \* postgres gather: what the AWS lookups returned
    pg_encrypt_calls, \* postgres gather: calls of encrypt per password key
    pg_s3_checked,    \* postgres gather: whether check_s3_bucket was called
    pg_result,    \* postgres gather: <<the returned mapping>>, <<>> before
    pg_out,       \* postgres gather: the definition rendered from the result
    pg_given,     \* postgres gather: the mapping as the caller passed it
    mr_pc,        \* multi-region: the step the flow is at
    mr_vars,      \* multi-region: the variables dict
    mr_rejects,   \* multi-region: answers the validators have rejected
    mr_files,     \* multi-region: the files written, [name, text]
    mr_open,      \* multi-region: the names of the open file handles
    mr_out,       \* multi-region: the text generate_definition returned
    mr_result     \* multi-region: <<the returned mapping>>, <<>> before

dvVars == <<dv_in, dv_vars, dv_calls>>
rgVars == <<rg_response, rg_pc, rg_result>>
rnVars == <<rn_template, rn_vars, rn_pc, rn_out>>
pgVars == <<pg_pc, pg_vars, pg_asked, pg_confirms, pg_env, pg_encrypt_calls,
            pg_s3_checked, pg_result, pg_out, pg_given>>

mrVars == <<mr_pc, mr_vars, mr_rejects, mr_files, mr_open, mr_out, mr_result>>

vars == <<dvVars, rgVars, rnVars, pgVars, mrVars>>

\* What each part of the model leaves alone.
dvOthers == <<rgVars, rnVars, pgVars, mrVars>>
rgOthers == <<dvVars, rnVars, pgVars, mrVars>>
rnOthers == <<dvVars, rgVars, pgVars, mrVars>>
pgOthers == <<dvVars, rgVars, rnVars, mrVars>>
mrOthers == <<dvVars, rgVars, rnVars, pgVars>>

----------------------------------------------------------------------------
(* Python values *)

None == [t |-> "none"]
PyStr(s) == [t |-> "str", s |-> s]
PyInt(i) == [t |-> "int", i |-> i]
PyBool(b) == [t |-> "bool", b |-> b]

\* Python truthiness of a scalar: None, False, 0 and "" are falsy.
Truthy(v) ==
    CASE v.t = "none" -> FALSE
      [] v.t = "bool" -> v.b
      [] v.t = "int"  -> v.i # 0
      [] v.t = "str"  -> v.s # ""
      [] v.t = "kms"  -> TRUE

\* The empty dict.
EmptyDict == [k \in {} |-> None]

\* d[k] = v on a dict.
DictSet(d, k, v) == [x \in (DOMAIN d) \cup {k} |-> IF x = k THEN v ELSE d[x]]

----------------------------------------------------------------------------
(* postgresapp.py: module constants and set_default_variables *)

POSTGRES_PORT == 5432
HEALTHCHECK_PORT == 8008

\* The setdefault calls of set_default_variables, in source order.
DEFAULTS ==
    << <<"version", PyStr("{{Arguments.version}}")>>,
       <<"ImageVersion", PyStr("{{Arguments.ImageVersion}}")>>,
       <<"discovery_domain", PyStr("postgres.example.com")>>,
       <<"docker_image", None>>,
       <<"ebs_optimized", None>>,
       <<"elb_access_cidr", PyStr("0.0.0.0/0")>>,
       <<"fsoptions", PyStr("noatime,nodiratime,nobarrier")>>,
       <<"fstype", PyStr("ext4")>>,
       <<"healthcheck_port", PyInt(HEALTHCHECK_PORT)>>,
       <<"hosted_zone", PyStr("example.com")>>,
       <<"add_replica_loadbalancer", PyBool(FALSE)>>,
       <<"instance_type", PyStr("t2.micro")>>,
       <<"kms_arn", None>>,
       <<"odd_sg_id", None>>,
       <<"pgpassword_admin", PyStr("admin")>>,
       <<"pgpassword_standby", PyStr("standby")>>,
       <<"pgpassword_superuser", PyStr("zalando")>>,
       <<"postgres_port", PyInt(POSTGRES_PORT)>>,
       <<"scalyr_account_key", None>>,
       <<"snapshot_id", None>>,
       <<"use_ebs", PyBool(TRUE)>>,
       <<"volume_iops", PyInt(300)>>,
       <<"volume_size", PyInt(10)>>,
       <<"volume_type", PyStr("gp2")>>,
       <<"wal_s3_bucket", None>>,
       <<"zmon_sg_id", None>>
    >>

DefaultKeys == {DEFAULTS[i][1] : i \in 1..Len(DEFAULTS)}

\* dict.setdefault as a bug would have it: a present but falsy value is replaced.
SetDefaultFalsyOverwritten(d, k, v) ==
    IF k \in DOMAIN d /\ Truthy(d[k]) THEN d ELSE DictSet(d, k, v)

\* dict.setdefault(k, v): the value is stored only if the key is absent.
SetDefault(d, k, v) ==
    IF k \in DOMAIN d THEN d ELSE DictSet(d, k, v)

RECURSIVE ApplyDefaults(_, _)
ApplyDefaults(d, i) ==
    IF i > Len(DEFAULTS) THEN d
    ELSE ApplyDefaults(SetDefault(d, DEFAULTS[i][1], DEFAULTS[i][2]), i + 1)

\* set_default_variables(variables): mutates and returns the same dict.
set_default_variables(d) == ApplyDefaults(d, 1)

----------------------------------------------------------------------------
(* Specification SpecDefaults: set_default_variables on bounded inputs *)

\* How many keys the caller's mapping holds at most.
MaxPresent == 2

\* Keys a caller may pass: every default key and one key the table lacks.
DvInputKeys == DefaultKeys \cup {"definition_file"}

\* Values a caller may pass, the falsy ones included.
DvInputVals == {None, PyBool(FALSE), PyStr("given")}

\* The subsets of S with at most n elements.
RECURSIVE SubsetsUpTo(_, _)
SubsetsUpTo(S, n) ==
    IF n = 0 THEN {{}}
    ELSE LET P == SubsetsUpTo(S, n - 1)
         IN  P \cup {p \cup {x} : p \in P, x \in S}

DvInputs ==
    UNION {[ks -> DvInputVals] : ks \in SubsetsUpTo(DvInputKeys, MaxPresent)}

DvInit ==
    /\ dv_in \in DvInputs
    /\ dv_vars = dv_in
    /\ dv_calls = 0

\* The defaulting step is not under study.
DvOff ==
    /\ dv_in = EmptyDict
    /\ dv_vars = EmptyDict
    /\ dv_calls = 0

\* One call of set_default_variables on the dict (a second call re-applies it).
DvApply ==
    /\ dv_calls < 2
    /\ dv_vars' = set_default_variables(dv_vars)
    /\ dv_calls' = dv_calls + 1
    /\ UNCHANGED <<dv_in, dvOthers>>

DvNext == DvApply

----------------------------------------------------------------------------
(* postgresapp.py: get_latest_spilo_image *)

SPILO_IMAGE_ADDRESS == "registry.opensource.zalan.do/acid/spilo-9.4"

\* 'SNAPSHOT' in tag, a tag being the sequence of its pieces.
ContainsSnapshot(tag) == \E i \in 1..Len(tag) : tag[i] = "SNAPSHOT"

\* s with e inserted before the first element created earlier than e: one step
\* of the stable descending sort sorted(..., key=created, reverse=True).
RECURSIVE InsertDesc(_, _)
InsertDesc(s, e) ==
    IF s = <<>> THEN <<e>>
    ELSE IF Head(s).created < e.created THEN <<e>> \o s
    ELSE <<Head(s)>> \o InsertDesc(Tail(s), e)

RECURSIVE SortedByCreatedDesc(_)
SortedByCreatedDesc(s) ==
    IF s = <<>> THEN <<>>
    ELSE InsertDesc(SortedByCreatedDesc(SubSeq(s, 1, Len(s) - 1)), s[Len(s)])

\* An exception raised inside the try block, or the value it returns.
Raise(kind) == [exc |-> kind, value |-> <<>>, returns |-> FALSE]
Return(v) == [exc |-> "none", value |-> v, returns |-> TRUE]
FallThrough == [exc |-> "none", value |-> <<>>, returns |-> FALSE]

\* "{0}:{1}".format(SPILO_IMAGE_ADDRESS, latest); None formats as "None".
FormatImage(latest) ==
    <<SPILO_IMAGE_ADDRESS, ":">> \o (IF latest = None THEN <<"None">> ELSE latest.s)

\* The scan as a bug would have it: the newest entry wins, snapshot or not.
RECURSIVE ScanTagsNewestWins(_, _, _)
ScanTagsNewestWins(s, i, latest) ==
    IF i > Len(s) THEN Return(FormatImage(latest))
    ELSE IF ~s[i].has_name THEN Raise("KeyError")
    ELSE Return(FormatImage(PyStr(s[i].name)))

\* The for loop over the sorted entries, from entry i on.
RECURSIVE ScanTags(_, _, _)
ScanTags(s, i, latest) ==
    IF i > Len(s) THEN Return(FormatImage(latest))
    ELSE IF ~s[i].has_name THEN Raise("KeyError")
    ELSE IF ~ContainsSnapshot(s[i].name) THEN Return(FormatImage(PyStr(s[i].name)))
    ELSE ScanTags(s, i + 1, IF latest # None THEN latest ELSE PyStr(s[i].name))

\* The body of the try block.
TryBody(resp) ==
    CASE resp.kind = "unreachable" -> Raise("ConnectionError")
      [] resp.kind = "not_ok" -> FallThrough
      [] resp.kind = "not_json" -> Raise("ValueError")
      [] resp.kind = "ok" ->
            IF \E i \in 1..Len(resp.body) : ~resp.body[i].has_created
            THEN Raise("KeyError")
            ELSE ScanTags(SortedByCreatedDesc(resp.body), 1, None)

\* An except clause as a bug would have it: only the request's errors are caught.
CaughtOnlyRequestErrors(exc) == exc = "ConnectionError"

\* The bare "except:" catches every exception.
Caught(exc) == TRUE

\* get_latest_spilo_image(): [raised, value].
get_latest_spilo_image(resp) ==
    LET b == TryBody(resp)
    IN  IF b.exc # "none" /\ ~Caught(b.exc) THEN [raised |-> TRUE, value |-> <<>>]
        ELSE IF b.returns THEN [raised |-> FALSE, value |-> b.value]
        ELSE [raised |-> FALSE, value |-> <<>>]

----------------------------------------------------------------------------
(* Specification SpecRegistry: get_latest_spilo_image on bounded responses *)

\* How many entries a response holds at most, and the latest creation time.
MaxEntries == 2
MaxCreated == 3

RgTags == {<<"1.0">>, <<"2.0">>, <<"2.0-", "SNAPSHOT">>, <<"3.0-", "SNAPSHOT">>}

\* An entry of the response: a JSON object that may lack "name" or "created".
RgEntries ==
    {[has_name |-> TRUE, name |-> n, has_created |-> TRUE, created |-> c] :
        n \in RgTags, c \in 1..MaxCreated}
    \cup {[has_name |-> FALSE, name |-> <<>>, has_created |-> TRUE, created |-> c] :
        c \in 1..MaxCreated}
    \cup {[has_name |-> TRUE, name |-> n, has_created |-> FALSE, created |-> 0] :
        n \in RgTags}
    \cup {[has_name |-> FALSE, name |-> <<>>, has_created |-> FALSE, created |-> 0]}

RgBodies == UNION {[1..n -> RgEntries] : n \in 0..MaxEntries}

RgResponses ==
    {[kind |-> k, body |-> <<>>] : k \in {"unreachable", "not_ok", "not_json"}}
    \cup {[kind |-> "ok", body |-> b] : b \in RgBodies}

RgInit ==
    /\ rg_response \in RgResponses
    /\ rg_pc = "start"
    /\ rg_result = <<>>

RgOff ==
    /\ rg_response = [kind |-> "unreachable", body |-> <<>>]
    /\ rg_pc = "start"
    /\ rg_result = <<>>

\* One call of get_latest_spilo_image.
RgCall ==
    /\ rg_pc = "start"
    /\ LET r == get_latest_spilo_image(rg_response)
       IN  /\ rg_pc' = IF r.raised THEN "raised" ELSE "returned"
           /\ rg_result' = r.value
    /\ UNCHANGED <<rg_response, rgOthers>>

RgNext == RgCall

----------------------------------------------------------------------------
(* senza.utils.pystache_render: the logic-less renderer, on a template given *)
(* as the sequence of its lexical pieces (delimiters, sigils, keys, text)    *)

\* str(value), as an interpolated scalar is written.
Stringify(v) ==
    CASE v.t = "none" -> "None"
      [] v.t = "bool" -> IF v.b THEN "True" ELSE "False"
      [] v.t = "int"  -> ToString(v.i)
      [] v.t = "str"  -> v.s

\* A tag's name: its pieces without the dots of a dotted name.
NameParts(content) == SelectSeq(content, LAMBDA x : x # ".")

\* {{name}}: a missing key interpolates as the empty string; a dotted name
\* looks its second part up inside the first, which no scalar has.
Interpolate(ctx, parts) ==
    IF parts[1] \notin DOMAIN ctx THEN ""
    ELSE IF Len(parts) > 1 THEN ""
    ELSE Stringify(ctx[parts[1]])

\* {{#key}}: rendered iff the key is present and its value truthy.
SectionOn(ctx, key) == key \in DOMAIN ctx /\ Truthy(ctx[key])

\* The scanner's state: the delimiters in force, whether it is inside a tag
\* and the tag's pieces so far, the number of open sections that are not
\* rendered, and the text so far.
ScanStart ==
    [otag |-> "{{", ctag |-> "}}", intag |-> FALSE, content |-> <<>>,
     skip |-> 0, out |-> <<>>]

\* The tag whose pieces are st.content ends.
EndTag(ctx, st) ==
    LET content == st.content
        sigil == content[1]
        done == [st EXCEPT !.intag = FALSE, !.content = <<>>]
    IN  CASE sigil = "=" ->
               \* {{=<% %>=}}: the two pieces after "=" are the new delimiters
               [done EXCEPT !.otag = content[2], !.ctag = content[3]]
          [] sigil = "#" ->
               [done EXCEPT !.skip = IF st.skip > 0 THEN st.skip + 1
                                     ELSE IF SectionOn(ctx, content[2]) THEN 0 ELSE 1]
          [] sigil = "^" ->
               [done EXCEPT !.skip = IF st.skip > 0 THEN st.skip + 1
                                     ELSE IF SectionOn(ctx, content[2]) THEN 1 ELSE 0]
          [] sigil = "/" ->
               [done EXCEPT !.skip = IF st.skip > 0 THEN st.skip - 1 ELSE 0]
          [] OTHER ->
               [done EXCEPT !.out = IF st.skip = 0
                                    THEN Append(st.out, Interpolate(ctx, NameParts(content)))
                                    ELSE st.out]

\* One piece of the template is read.
ScanPiece(ctx, st, tok) ==
    IF st.intag
    THEN IF tok = st.ctag THEN EndTag(ctx, st)
         ELSE [st EXCEPT !.content = Append(st.content, tok)]
    ELSE IF tok = st.otag THEN [st EXCEPT !.intag = TRUE]
         ELSE IF st.skip = 0 THEN [st EXCEPT !.out = Append(st.out, tok)]
         ELSE st

\* The pieces lo..hi are read in order, starting in state st (the first
\* test only has st evaluated before the pieces are read).
RECURSIVE ScanRange(_, _, _, _, _)
ScanRange(tpl, ctx, lo, hi, st) ==
    IF st.skip < 0 \/ lo > hi THEN st
    ELSE IF lo = hi THEN ScanPiece(ctx, st, tpl[lo])
    ELSE LET mid == (lo + hi) \div 2
         IN  ScanRange(tpl, ctx, mid + 1, hi, ScanRange(tpl, ctx, lo, mid, st))

\* pystache_render(template, variables): rendering starts with {{ and }}.
pystache_render(tpl, ctx) == ScanRange(tpl, ctx, 1, Len(tpl), ScanStart).out

\* Template pieces.
Var(k) == <<"{{", k, "}}">>
Open(k) == <<"{{", "#", k, "}}">>
OpenInv(k) == <<"{{", "^", k, "}}">>
Close(k) == <<"{{", "/", k, "}}">>

----------------------------------------------------------------------------
(* postgresapp.py: TEMPLATE, the parts with sections, and generate_definition *)

\* TEMPLATE lines 28-36: SenzaInfo.
PG_SenzaInfo ==
    <<"SenzaInfo:", "StackName: spilo">>
    \o OpenInv("docker_image")
    \o <<"Parameters:", "- ImageVersion:",
         "Description: \"Docker image version of spilo.\"">>
    \o Close("docker_image")
    \o <<"Tags:", "- SpiloCluster: \"">> \o Var("version") \o <<"\"">>

\* The device mapping as a bug would have it: both branches on {{#use_ebs}}.
PG_BlockDeviceBothOnUseEbs ==
    <<"BlockDeviceMappings:", "- DeviceName: /dev/xvdk">>
    \o Open("use_ebs")
    \o <<"Ebs:", "VolumeSize: ">> \o Var("volume_size")
    \o <<"VolumeType: ">> \o Var("volume_type")
    \o Open("snapshot_id") \o <<"SnapshotId: ">> \o Var("snapshot_id")
    \o Close("snapshot_id")
    \o Open("volume_iops") \o <<"Iops: ">> \o Var("volume_iops")
    \o Close("volume_iops")
    \o Close("use_ebs")
    \o Open("use_ebs") \o <<"VirtualName: ephemeral0">> \o Close("use_ebs")

\* TEMPLATE lines 56-71: the /dev/xvdk device mapping.
PG_BlockDevice ==
    <<"BlockDeviceMappings:", "- DeviceName: /dev/xvdk">>
    \o Open("use_ebs")
    \o <<"Ebs:", "VolumeSize: ">> \o Var("volume_size")
    \o <<"VolumeType: ">> \o Var("volume_type")
    \o Open("snapshot_id") \o <<"SnapshotId: ">> \o Var("snapshot_id")
    \o Close("snapshot_id")
    \o Open("volume_iops") \o <<"Iops: ">> \o Var("volume_iops")
    \o Close("volume_iops")
    \o Close("use_ebs")
    \o OpenInv("use_ebs") \o <<"VirtualName: ephemeral0">> \o Close("use_ebs")

\* TEMPLATE lines 52-55: instance type and EBS optimisation.
PG_Instance ==
    <<"InstanceType: ">> \o Var("instance_type")
    \o Open("ebs_optimized") \o <<"EbsOptimized: True">> \o Close("ebs_optimized")

\* The Taupage source as a bug would have it: the ImageVersion fallback is
\* not inside an inverted section.
PG_TaupageFallbackAlways ==
    <<"TaupageConfig:", "runtime: Docker">>
    \o Open("docker_image") \o <<"source: ">> \o Var("docker_image")
    \o Close("docker_image")
    \o <<"source: \"">> \o Var("ImageVersion") \o <<"\"">>
    \o <<"ports:">>
    \o Var("postgres_port") \o <<": ">> \o Var("postgres_port")
    \o Var("healthcheck_port") \o <<": ">> \o Var("healthcheck_port")

\* TEMPLATE lines 85-95: TaupageConfig up to the ports.
PG_Taupage ==
    <<"TaupageConfig:", "runtime: Docker">>
    \o Open("docker_image") \o <<"source: ">> \o Var("docker_image")
    \o Close("docker_image")
    \o OpenInv("docker_image")
    \o <<"source: \"">> \o Var("ImageVersion") \o <<"\"">>
    \o Close("docker_image")
    \o <<"ports:">>
    \o Var("postgres_port") \o <<": ">> \o Var("postgres_port")
    \o Var("healthcheck_port") \o <<": ">> \o Var("healthcheck_port")

\* TEMPLATE lines 231-238: the KMS statement of the IAM policy.
PG_KmsPolicy ==
    Open("kms_arn")
    \o <<"- Effect: Allow", "Action:", "- \"kms:Decrypt\"", "- \"kms:Encrypt\"",
         "Resource:", "- ">> \o Var("kms_arn")
    \o Close("kms_arn")

\* TEMPLATE lines 295-310: ingress of SpiloMemberSG from zmon and from Odd.
PG_MemberIngress ==
    Open("zmon_sg_id")
    \o <<"- IpProtocol: tcp", "FromPort: ">> \o Var("postgres_port")
    \o <<"ToPort: ">> \o Var("postgres_port")
    \o <<"SourceSecurityGroupId: \"">> \o Var("zmon_sg_id") \o <<"\"">>
    \o <<"- IpProtocol: tcp", "FromPort: ">> \o Var("healthcheck_port")
    \o <<"ToPort: ">> \o Var("healthcheck_port")
    \o <<"SourceSecurityGroupId: \"">> \o Var("zmon_sg_id") \o <<"\"">>
    \o Close("zmon_sg_id")
    \o Open("odd_sg_id")
    \o <<"- IpProtocol: tcp", "FromPort: 0", "ToPort: 65535",
         "SourceSecurityGroupId: \"">> \o Var("odd_sg_id") \o <<"\"">>
    \o Close("odd_sg_id")

\* TEMPLATE, in source order.
PG_TEMPLATE ==
    PG_SenzaInfo \o PG_Instance \o PG_BlockDevice \o PG_Taupage
    \o PG_KmsPolicy \o PG_MemberIngress

\* postgresapp.generate_definition(variables).
pg_generate_definition(variables) == pystache_render(PG_TEMPLATE, variables)

----------------------------------------------------------------------------
(* webappmultiregion.py: TEMPLATE, BASE_TEMPLATE and generate_definition *)

\* {{=<% %>=}} and <%={{ }}=%>: the delimiter changes around a placeholder
\* of the second rendering pass.
ToAlt == <<"{{", "=", "<%", "%>", "=", "}}">>
ToStd == <<"<%", "=", "{{", "}}", "=", "%>">>

\* The placeholders of the second pass, as they stand in the template text.
Stage2ImageVersion == <<"{{", "Arguments", ".", "ImageVersion", "}}">>
Stage2Region == <<"{{", "AccountInfo", ".", "Region", "}}">>
Stage2StackVersion == <<"{{", "SenzaInfo", ".", "StackVersion", "}}">>

\* TEMPLATE lines 12-16.
MR_SenzaInfo ==
    <<"SenzaInfo:", "StackName: ">> \o Var("application_id")
    \o <<"Parameters:", "- ImageVersion:", "Description: \"Docker image version of ">>
    \o Var("application_id") \o <<".\"">>

\* TEMPLATE lines 26-36.
MR_AppServer ==
    <<"- AppServer:", "Type: Senza::TaupageAutoScalingGroup", "InstanceType: ">>
    \o Var("instance_type")
    \o <<"SecurityGroups:", "- Stack: ">> \o Var("application_id")
    \o <<"-base-resources", "LogicalId: ">> \o Var("application_id_camel")
    \o <<"SecurityGroup", "IamRoles:", "- Stack: ">> \o Var("application_id")
    \o <<"-base-resources", "LogicalId: ">> \o Var("application_id_camel")
    \o <<"Role", "ElasticLoadBalancer: AppLoadBalancer",
         "AssociatePublicIpAddress: false">>

\* The Taupage block as a bug would have it: the source line's placeholder
\* is not wrapped in a delimiter change.
MR_TaupageSourceNotEscaped ==
    <<"TaupageConfig:", "application_version: \"">>
    \o ToAlt \o Stage2ImageVersion \o ToStd \o <<"\"">>
    \o <<"runtime: Docker", "source: \"">> \o Var("docker_image") \o <<":">>
    \o Stage2ImageVersion \o <<"\"">>
    \o <<"health_check_path: ">> \o Var("http_health_check_path")
    \o <<"ports:">> \o Var("http_port") \o <<": ">> \o Var("http_port")
    \o Open("mint_bucket") \o <<"mint_bucket: \"">> \o Var("mint_bucket")
    \o <<"\"">> \o Close("mint_bucket")

\* TEMPLATE lines 37-46.
MR_Taupage ==
    <<"TaupageConfig:", "application_version: \"">>
    \o ToAlt \o Stage2ImageVersion \o ToStd \o <<"\"">>
    \o <<"runtime: Docker", "source: \"">> \o Var("docker_image") \o <<":">>
    \o ToAlt \o Stage2ImageVersion \o ToStd \o <<"\"">>
    \o <<"health_check_path: ">> \o Var("http_health_check_path")
    \o <<"ports:">> \o Var("http_port") \o <<": ">> \o Var("http_port")
    \o Open("mint_bucket") \o <<"mint_bucket: \"">> \o Var("mint_bucket")
    \o <<"\"">> \o Close("mint_bucket")

\* TEMPLATE lines 49-65.
MR_LoadBalancer ==
    <<"- AppLoadBalancer:", "Type: Senza::WeightedDnsElasticLoadBalancer",
      "HTTPPort: ">> \o Var("http_port")
    \o <<"HealthCheckPath: ">> \o Var("http_health_check_path")
    \o <<"SecurityGroups:", "- Stack: ">> \o Var("application_id")
    \o <<"-base-resources", "LogicalId: ">> \o Var("application_id_camel")
    \o <<"LoadBalancerSecurityGroup", "Scheme: ">> \o Var("loadbalancer_scheme")
    \o <<"Domains:", "MainDomain:", "Type: weighted", "Zone: \"">>
    \o Var("hosted_zone") \o <<"\"", "Subdomain: ">> \o Var("application_id")
    \o <<"-">> \o ToAlt \o Stage2Region \o ToStd
    \o <<"VersionDomain:", "Type: standalone", "Zone: \"">>
    \o Var("hosted_zone") \o <<"\"", "Subdomain: ">> \o Var("application_id")
    \o <<"-">> \o ToAlt \o Stage2Region \o <<"-">> \o Stage2StackVersion \o ToStd

\* TEMPLATE, in source order.
MR_TEMPLATE == MR_SenzaInfo \o MR_AppServer \o MR_Taupage \o MR_LoadBalancer

\* BASE_TEMPLATE lines 69-83.
BASE_RegionRecord ==
    <<"SenzaInfo:", "StackName: ">> \o Var("application_id") \o <<"-base">>
    \o <<"Resources:">> \o Var("application_id_camel")
    \o <<"RegionRecord:", "Type: AWS::Route53::RecordSet", "Properties:",
         "Type: CNAME", "TTL: 20", "HostedZoneName: \"">> \o Var("hosted_zone")
    \o <<"\"", "Name: \"">> \o Var("application_id") \o <<".">>
    \o Var("hosted_zone")
    \o <<"\"", "Region: \"">> \o ToAlt \o Stage2Region \o ToStd
    \o <<"\"", "SetIdentifier: \"">> \o Var("application_id") \o <<"-">>
    \o ToAlt \o Stage2Region \o ToStd
    \o <<"\"", "ResourceRecords:", "- \"">> \o Var("application_id") \o <<"-">>
    \o ToAlt \o Stage2Region \o ToStd \o <<".">> \o Var("hosted_zone")
    \o <<"\"">>

\* BASE_TEMPLATE lines 84-104.
BASE_Role ==
    Var("application_id_camel")
    \o <<"Role:", "Type: AWS::IAM::Role", "Path: /">>
    \o Open("mint_bucket")
    \o <<"Policies:", "- PolicyName: AllowMintRead", "Action: \"s3:GetObject\"",
         "Resource: [\"arn:aws:s3:::">> \o Var("mint_bucket") \o <<"/">>
    \o Var("application_id") \o <<"/*\"]">>
    \o Close("mint_bucket")

\* BASE_TEMPLATE lines 105-136.
BASE_SecurityGroups ==
    Var("application_id_camel")
    \o <<"SecurityGroup:", "GroupDescription: \"app-">> \o Var("application_id")
    \o <<"\"", "Value: app-">> \o Var("application_id")
    \o Var("application_id_camel")
    \o <<"LoadBalancerSecurityGroup:", "GroupDescription: \"app-">>
    \o Var("application_id") \o <<"-lb\"", "Value: app-">>
    \o Var("application_id") \o <<"-lb">>

BASE_TEMPLATE == BASE_RegionRecord \o BASE_Role \o BASE_SecurityGroups

\* webappmultiregion.generate_definition(variables).
mr_generate_definition(variables) == pystache_render(MR_TEMPLATE, variables)

----------------------------------------------------------------------------
(* Specification SpecRender: the three templates on bounded mappings *)

\* d without key k (k absent from the mapping).
DictRemove(d, k) == [x \in (DOMAIN d) \ {k} |-> d[x]]

\* An option for a key: absent, or present with a value.
Absent == [t |-> "absent"]
WithOption(d, k, o) == IF o = Absent THEN DictRemove(d, k) ELSE DictSet(d, k, o)

\* Mappings for the database template: the defaults, with the keys that gate
\* a section taking falsy, truthy and absent values.
PgRenderInputs ==
    LET base == set_default_variables(EmptyDict)
    IN  { WithOption(WithOption(WithOption(WithOption(WithOption(WithOption(base,
            "use_ebs", u), "docker_image", d), "snapshot_id", s),
            "volume_iops", i), "kms_arn", k), "zmon_sg_id", z) :
          u \in {Absent, None, PyBool(FALSE), PyBool(TRUE), PyInt(0), PyStr("")},
          d \in {Absent, None, PyStr(""), PyStr("pierone.example.org/acid/spilo:1.0")},
          s \in {None, PyStr("snap-1")},
          i \in {None, PyInt(300)},
          k \in {None, PyStr("arn:aws:kms:key-1")},
          z \in {None, PyStr("sg-zmon")} }

\* Mappings for the multi-region templates, some defining keys named like
\* the second pass's namespaces.
MrRenderInputs ==
    LET base == [application_id |-> PyStr("hello-world"),
                 application_id_camel |-> PyStr("HelloWorld"),
                 docker_image |-> PyStr("stups/hello-world"),
                 http_port |-> PyInt(8080),
                 http_health_check_path |-> PyStr("/"),
                 instance_type |-> PyStr("t2.micro"),
                 mint_bucket |-> None,
                 loadbalancer_scheme |-> PyStr("internal"),
                 hosted_zone |-> PyStr("example.com.")]
    IN  { WithOption(WithOption(WithOption(WithOption(WithOption(WithOption(base,
            "Arguments", a), "AccountInfo", c), "SenzaInfo", z),
            "mint_bucket", m), "http_health_check_path", h), "hosted_zone", hz) :
          a \in {Absent, PyStr("clash")},
          c \in {Absent, PyStr("clash")},
          z \in {Absent, PyStr("clash")},
          m \in {Absent, None, PyStr("mint-bucket")},
          h \in {Absent, PyStr("/health")},
          hz \in {Absent, PyStr("example.org.")} }

RnInit ==
    /\ rn_template \in {"postgres", "multiregion", "base"}
    /\ rn_vars \in IF rn_template = "postgres" THEN PgRenderInputs ELSE MrRenderInputs
    /\ rn_pc = "start"
    /\ rn_out = <<>>

RnOff ==
    /\ rn_template = "postgres"
    /\ rn_vars = EmptyDict
    /\ rn_pc = "start"
    /\ rn_out = <<>>

\* postgresapp.generate_definition.
RnPostgres ==
    /\ rn_pc = "start" /\ rn_template = "postgres"
    /\ rn_out' = pg_generate_definition(rn_vars)
    /\ rn_pc' = "rendered"
    /\ UNCHANGED <<rn_template, rn_vars, rnOthers>>

\* webappmultiregion.generate_definition.
RnMultiRegion ==
    /\ rn_pc = "start" /\ rn_template = "multiregion"
    /\ rn_out' = mr_generate_definition(rn_vars)
    /\ rn_pc' = "rendered"
    /\ UNCHANGED <<rn_template, rn_vars, rnOthers>>

\* The render of BASE_TEMPLATE in webappmultiregion.gather_user_variables.
RnBase ==
    /\ rn_pc = "start" /\ rn_template = "base"
    /\ rn_out' = pystache_render(BASE_TEMPLATE, rn_vars)
    /\ rn_pc' = "rendered"
    /\ UNCHANGED <<rn_template, rn_vars, rnOthers>>

RnNext == RnPostgres \/ RnMultiRegion \/ RnBase

----------------------------------------------------------------------------
(* postgresapp.py: gather_user_variables *)

\* _helper.prompt(variables, key, ...): the operator is asked only for a key
\* the mapping does not hold yet, and the answer is stored under the key.
Prompt(d, k, answer) == IF k \in DOMAIN d THEN d ELSE DictSet(d, k, answer)

\* The keys among ks that Prompt asks the operator for, given mapping d.
Solicited(d, ks) == ks \ DOMAIN d

\* instance_type.lower().split('.')[0], on the instance types of the model.
InstanceFamily(it) ==
    CASE it = "t2.micro" -> "t2"
      [] it = "c3.xlarge" -> "c3"
      [] it = "M3.medium" -> "m3"
      [] it = "r3.8xlarge" -> "r3"

\* The families of line 421, which come with instance storage.
EphemeralFamilies == {"c3", "g2", "hi1", "i2", "m3", "r3"}

\* The types ebs_optimized_supported lists.
EbsOptimizedTypes ==
    {"c1.large", "c3.xlarge", "c3.2xlarge", "c3.4xlarge",
     "c4.large", "c4.xlarge", "c4.2xlarge", "c4.4xlarge", "c4.8xlarge",
     "d2.xlarge", "d2.2xlarge", "d2.4xlarge", "d2.8xlarge",
     "g2.2xlarge", "i2.xlarge", "i2.2xlarge", "i2.4xlarge",
     "m1.large", "m1.xlarge", "m2.2xlarge", "m2.4xlarge",
     "m3.xlarge", "m3.2xlarge", "r3.xlarge", "r3.2xlarge", "r3.4xlarge"}

ebs_optimized_supported(instance_type) == instance_type \in EbsOptimizedTypes

\* hosted_zone with a '.' appended unless it ends with one (lines 388-389),
\* on the domains of the model.
WithTrailingDot(zone) ==
    CASE zone = "example.com" -> "example.com."
      [] zone = "example.org" -> "example.org."
      [] zone = "example.org." -> "example.org."

\* 'postgres.' + hosted_zone[:-1] (line 391).
DiscoveryDefault(zone) ==
    CASE zone = "example.com." -> "postgres.example.com"
      [] zone = "example.org." -> "postgres.example.org"

\* The returned image reference as one string (the prompt's default).
ImageString(pieces) ==
    CASE pieces = <<>> -> ""
      [] pieces = <<SPILO_IMAGE_ADDRESS, ":", "1.0">>
           -> "registry.opensource.zalan.do/acid/spilo-9.4:1.0"
      [] pieces = <<SPILO_IMAGE_ADDRESS, ":", "None">>
           -> "registry.opensource.zalan.do/acid/spilo-9.4:None"

\* The encrypted value as a bug would have it: the plaintext itself.
KmsStringPlaintextKept(keyid, plaintext) == plaintext

\* 'aws:kms:{}'.format(encrypt(region, KeyId, Plaintext, b64encode=True)).
KmsString(keyid, plaintext) == [t |-> "kms", key |-> keyid, plain |-> plaintext]

\* k.startswith('pgpassword_'), on the keys of the model.
IsPasswordKey(k) ==
    k \in {"pgpassword_superuser", "pgpassword_standby", "pgpassword_admin",
           "pgpassword_extra"}

\* '{}: {}'.format(k['KeyId'], k['Description']) and kms_key.split(':')[0].
KeyOption(k) == <<k.KeyId, ": ", k.Description>>
OptionKeyId(option) == option[1]

\* The key filter as a bug would have it: the EBS default key is offered too.
UsableKmsKeysUnfiltered(keys) == keys

\* [k for k in list_kms_keys(region) if 'alias/aws/ebs' not in k['aliases']].
UsableKmsKeys(keys) ==
    SelectSeq(keys, LAMBDA k : "alias/aws/ebs" \notin k.aliases)

\* The storage decision as a bug would have it: asked for every family.
UseEbsAnswerAlwaysAsked(instance_type) == BOOLEAN

\* Lines 421-425: the values use_ebs can take, and whether the operator is
\* asked: a family with instance storage is asked, any other gets True.
UseEbsAsked(instance_type) == InstanceFamily(instance_type) \in EphemeralFamilies
UseEbsAnswer(instance_type) ==
    IF UseEbsAsked(instance_type) THEN BOOLEAN ELSE {TRUE}

----------------------------------------------------------------------------
(* Specification SpecGather: postgresapp.gather_user_variables, step by step *)

\* How many zmon security groups describe_instances reports at most.
MaxZmonGroups == 2

PgInstanceTypes == {"t2.micro", "c3.xlarge", "M3.medium"}

\* Mappings the caller passes in.
PgPrefills ==
    { EmptyDict,
      [pgpassword_extra |-> PyStr("extra")],
      [use_ebs |-> PyBool(FALSE), volume_type |-> PyStr("io1"),
       kms_arn |-> PyStr("arn:aws:kms:prefilled"),
       pgpassword_extra |-> PyStr("extra")] }

\* Registry answers to the docker image default.
PgRegistryAnswers ==
    { [kind |-> "unreachable", body |-> <<>>],
      [kind |-> "ok", body |-> <<[has_name |-> TRUE, name |-> <<"1.0">>,
                                  has_created |-> TRUE, created |-> 1]>>] }

\* What list_kms_keys may return.
KeyEbs == [KeyId |-> "key-ebs", Description |-> "Default EBS key",
           Arn |-> "arn:aws:kms:key-ebs", aliases |-> {"alias/aws/ebs"}]
Key1 == [KeyId |-> "key-1", Description |-> "spilo",
         Arn |-> "arn:aws:kms:key-1", aliases |-> {"alias/spilo"}]
Key2 == [KeyId |-> "key-2", Description |-> "other",
         Arn |-> "arn:aws:kms:key-2", aliases |-> {}]
PgKeyLists == {<<>>, <<KeyEbs>>, <<KeyEbs, Key1, Key2>>}

ZmonGroupIds == <<"sg-zmon-1", "sg-zmon-2", "sg-zmon-3">>

PgInit ==
    /\ pg_pc = "docker"
    /\ pg_vars \in PgPrefills
    /\ pg_asked = {}
    /\ pg_confirms = [c \in {} |-> FALSE]
    /\ pg_env = [odd_sg |-> "", zmon_sgs |-> <<>>, kms_keys |-> <<>>, kms_keyid |-> ""]
    /\ pg_encrypt_calls = [k \in {} |-> 0]
    /\ pg_s3_checked = FALSE
    /\ pg_result = <<>>
    /\ pg_out = <<>>
    /\ pg_given = pg_vars

PgOff ==
    /\ pg_pc = "off"
    /\ pg_vars = EmptyDict
    /\ pg_asked = {}
    /\ pg_confirms = [c \in {} |-> FALSE]
    /\ pg_env = [odd_sg |-> "", zmon_sgs |-> <<>>, kms_keys |-> <<>>, kms_keyid |-> ""]
    /\ pg_encrypt_calls = [k \in {} |-> 0]
    /\ pg_s3_checked = FALSE
    /\ pg_result = <<>>
    /\ pg_out = <<>>
    /\ pg_given = EmptyDict

\* click.confirm(label) answered a.
Confirmed(label, a) == DictSet(pg_confirms, label, a)

\* Lines 379-380: the docker image, defaulting to the latest spilo image.
PgDockerImage ==
    /\ pg_pc = "docker"
    /\ \E a \in BOOLEAN, resp \in PgRegistryAnswers :
         /\ pg_confirms' = Confirmed("docker_image", a)
         /\ IF a
            THEN LET default == get_latest_spilo_image(resp).value
                 IN  /\ pg_vars' = Prompt(pg_vars, "docker_image",
                                          PyStr(ImageString(default)))
                     /\ pg_asked' = pg_asked \cup Solicited(pg_vars, {"docker_image"})
            ELSE /\ resp = [kind |-> "unreachable", body |-> <<>>]
                 /\ UNCHANGED <<pg_vars, pg_asked>>
    /\ pg_pc' = "bucket"
    /\ UNCHANGED <<pg_env, pg_encrypt_calls, pg_s3_checked, pg_result, pg_out, pg_given, pgOthers>>

\* Lines 382-385: the WAL bucket and the instance type.
PgBucketAndInstance ==
    /\ pg_pc = "bucket"
    /\ \E it \in PgInstanceTypes :
         LET v1 == Prompt(pg_vars, "wal_s3_bucket", PyStr("myaccount-eu-west-1-spilo-app"))
         IN  /\ pg_vars' = Prompt(v1, "instance_type", PyStr(it))
             /\ pg_asked' = pg_asked \cup Solicited(pg_vars, {"wal_s3_bucket"})
                                     \cup Solicited(v1, {"instance_type"})
    /\ pg_pc' = "zone"
    /\ UNCHANGED <<pg_confirms, pg_env, pg_encrypt_calls, pg_s3_checked, pg_result, pg_out,
                   pg_given, pgOthers>>

\* Lines 387-396: hosted zone, discovery domain, replica ELB, ELB access.
PgZoneAndElb ==
    /\ pg_pc = "zone"
    /\ \E domain \in {PyStr("example.org")}, replica \in BOOLEAN :
         LET defaults == set_default_variables(EmptyDict)
             zone == WithTrailingDot(IF Truthy(domain) THEN domain.s
                                     ELSE defaults["hosted_zone"].s)
             v1 == DictSet(pg_vars, "hosted_zone", PyStr(zone))
             v2 == Prompt(v1, "discovery_domain", PyStr(DiscoveryDefault(zone)))
             v3 == DictSet(v2, "add_replica_loadbalancer", PyBool(replica))
         IN  /\ pg_vars' = Prompt(v3, "elb_access_cidr", PyStr("172.31.0.0/16"))
             /\ pg_asked' = pg_asked \cup Solicited(v1, {"discovery_domain"})
                                     \cup Solicited(v3, {"elb_access_cidr"})
             /\ pg_confirms' = Confirmed("replica_elb", replica)
    /\ pg_pc' = "odd"
    /\ UNCHANGED <<pg_env, pg_encrypt_calls, pg_s3_checked, pg_result, pg_out, pg_given, pgOthers>>

\* Lines 398-402: access from the Odd bastion host's security group.
PgOdd ==
    /\ pg_pc = "odd"
    /\ \E odd_sg \in {"", "sg-odd"} :
         /\ pg_env' = [pg_env EXCEPT !.odd_sg = odd_sg]
         /\ IF odd_sg # ""
            THEN \E a \in BOOLEAN :
                   /\ pg_confirms' = Confirmed("odd", a)
                   /\ pg_vars' = IF a THEN DictSet(pg_vars, "odd_sg_id", PyStr(odd_sg))
                                 ELSE pg_vars
            ELSE UNCHANGED <<pg_confirms, pg_vars>>
    /\ pg_pc' = "zmon"
    /\ UNCHANGED <<pg_asked, pg_encrypt_calls, pg_s3_checked, pg_result, pg_out, pg_given, pgOthers>>

\* Lines 404-419: access from the zmon workers' security groups. The answer
\* to the confirmation is not used.
PgZmon ==
    /\ pg_pc = "zmon"
    /\ \E n \in 0..MaxZmonGroups :
         LET zmon_sgs == SubSeq(ZmonGroupIds, 1, n)
         IN  /\ pg_env' = [pg_env EXCEPT !.zmon_sgs = zmon_sgs]
             /\ IF Len(zmon_sgs) = 0
                THEN UNCHANGED <<pg_confirms, pg_vars, pg_asked>>
                ELSE \E a \in BOOLEAN :
                       /\ pg_confirms' = Confirmed("zmon", a)
                       /\ IF Len(zmon_sgs) > 1
                          THEN /\ pg_vars' = Prompt(pg_vars, "zmon_sg_id",
                                                    PyStr(zmon_sgs[Len(zmon_sgs)]))
                               /\ pg_asked' = pg_asked
                                                \cup Solicited(pg_vars, {"zmon_sg_id"})
                          ELSE /\ pg_vars' = DictSet(pg_vars, "zmon_sg_id",
                                                     PyStr(zmon_sgs[1]))
                               /\ UNCHANGED pg_asked
    /\ pg_pc' = "use_ebs"
    /\ UNCHANGED <<pg_encrypt_calls, pg_s3_checked, pg_result, pg_out, pg_given, pgOthers>>

\* Lines 421-425: external storage or instance storage.
PgUseEbs ==
    /\ pg_pc = "use_ebs"
    /\ LET it == pg_vars["instance_type"].s
       IN  \E a \in UseEbsAnswer(it) :
             /\ pg_vars' = DictSet(pg_vars, "use_ebs", PyBool(a))
             /\ pg_confirms' = IF UseEbsAsked(it) THEN Confirmed("use_ebs", a)
                               ELSE pg_confirms
    /\ pg_pc' = "ebs"
    /\ UNCHANGED <<pg_asked, pg_env, pg_encrypt_calls, pg_s3_checked, pg_result, pg_out,
                   pg_given, pgOthers>>

\* Lines 427-437: the volume settings, asked for if use_ebs.
PgEbsSettings ==
    /\ pg_pc = "ebs"
    /\ IF Truthy(pg_vars["use_ebs"])
       THEN \E size \in {50}, type \in {"gp2", "io1", "standard"},
               snap \in {"", "snap-1"} :
              LET defaults == set_default_variables(EmptyDict)
                  v1 == Prompt(pg_vars, "volume_size", PyInt(size))
                  v2 == Prompt(v1, "volume_type", PyStr(type))
                  io1 == v2["volume_type"] = PyStr("io1")
                  pio_max == v2["volume_size"].i * 30
                  v3 == IF io1 THEN Prompt(v2, "volume_iops", PyStr(ToString(pio_max)))
                        ELSE v2
                  v4 == Prompt(v3, "snapshot_id", PyStr(snap))
              IN  /\ pg_vars' = IF ebs_optimized_supported(v4["instance_type"].s)
                                THEN DictSet(v4, "ebs_optimized", PyBool(TRUE))
                                ELSE v4
                  /\ pg_asked' = pg_asked
                       \cup Solicited(pg_vars, {"volume_size"})
                       \cup Solicited(v1, {"volume_type"})
                       \cup (IF io1 THEN Solicited(v2, {"volume_iops"}) ELSE {})
                       \cup Solicited(v3, {"snapshot_id"})
       ELSE UNCHANGED <<pg_vars, pg_asked>>
    /\ pg_pc' = "fs"
    /\ UNCHANGED <<pg_confirms, pg_env, pg_encrypt_calls, pg_s3_checked, pg_result, pg_out,
                   pg_given, pgOthers>>

\* Lines 438-448: filesystem, scalyr key and the three passwords.
PgFsAndPasswords ==
    /\ pg_pc = "fs"
    /\ LET defaults == set_default_variables(EmptyDict)
           v1 == Prompt(pg_vars, "fstype", defaults["fstype"])
           v2 == Prompt(v1, "fsoptions", defaults["fsoptions"])
           v3 == Prompt(v2, "scalyr_account_key", PyStr(""))
           v4 == Prompt(v3, "pgpassword_superuser", PyStr("RANDOM-SUPERUSER"))
           v5 == Prompt(v4, "pgpassword_standby", PyStr("RANDOM-STANDBY"))
       IN  /\ pg_vars' = Prompt(v5, "pgpassword_admin", defaults["pgpassword_admin"])
           /\ pg_asked' = pg_asked
                \cup Solicited(pg_vars, {"fstype"}) \cup Solicited(v1, {"fsoptions"})
                \cup Solicited(v2, {"scalyr_account_key"})
                \cup Solicited(v3, {"pgpassword_superuser"})
                \cup Solicited(v4, {"pgpassword_standby"})
                \cup Solicited(v5, {"pgpassword_admin"})
    /\ pg_pc' = "kms"
    /\ UNCHANGED <<pg_confirms, pg_env, pg_encrypt_calls, pg_s3_checked, pg_result, pg_out,
                   pg_given, pgOthers>>

\* Lines 450-465: KMS encryption of the passwords; a usage error if the
\* operator wants it and no key is left after the filter.
PgKms ==
    /\ pg_pc = "kms"
    /\ \E a \in BOOLEAN :
         /\ pg_confirms' = Confirmed("kms", a)
         /\ IF ~a
            THEN /\ pg_pc' = "finish"
                 /\ UNCHANGED <<pg_vars, pg_env, pg_encrypt_calls>>
            ELSE \E keys \in PgKeyLists :
                   LET kms_keys == UsableKmsKeys(keys)
                   IN  IF Len(kms_keys) = 0
                       THEN /\ pg_pc' = "aborted"
                            /\ pg_env' = [pg_env EXCEPT !.kms_keys = keys]
                            /\ UNCHANGED <<pg_vars, pg_encrypt_calls>>
                       ELSE \E c \in 1..Len(kms_keys) :
                              LET kms_keyid == OptionKeyId(KeyOption(kms_keys[c]))
                                  arn == (CHOOSE i \in 1..Len(kms_keys) :
                                            /\ kms_keys[i].KeyId = kms_keyid
                                            /\ \A j \in 1..(i - 1) :
                                                 kms_keys[j].KeyId # kms_keyid)
                                  v1 == DictSet(pg_vars, "kms_arn",
                                                PyStr(kms_keys[arn].Arn))
                                  pw == {k \in DOMAIN v1 : IsPasswordKey(k)}
                              IN  /\ pg_vars' = [k \in DOMAIN v1 |->
                                                   IF k \in pw
                                                   THEN KmsString(kms_keyid, v1[k])
                                                   ELSE v1[k]]
                                  /\ pg_encrypt_calls' = [k \in pw |-> 1]
                                  /\ pg_env' = [pg_env EXCEPT !.kms_keys = keys,
                                                              !.kms_keyid = kms_keyid]
                                  /\ pg_pc' = "finish"
    /\ UNCHANGED <<pg_asked, pg_s3_checked, pg_result, pg_out, pg_given, pgOthers>>

\* Lines 467-471: the defaults, the bucket check, the return.
PgFinish ==
    /\ pg_pc = "finish"
    /\ pg_vars' = set_default_variables(pg_vars)
    /\ pg_s3_checked' = TRUE
    /\ pg_pc' = "returned"
    /\ pg_result' = <<pg_vars'>>
    /\ UNCHANGED <<pg_asked, pg_confirms, pg_env, pg_encrypt_calls, pg_out, pg_given, pgOthers>>

\* Lines 482-489: generate_definition on the mapping the flow returned.
PgGenerateDefinition ==
    /\ pg_pc = "returned"
    /\ pg_out' = pg_generate_definition(pg_result[1])
    /\ pg_pc' = "generated"
    /\ UNCHANGED <<pg_vars, pg_asked, pg_confirms, pg_env, pg_encrypt_calls,
                   pg_s3_checked, pg_result, pg_given, pgOthers>>

PgNext ==
    \/ PgDockerImage
    \/ PgBucketAndInstance
    \/ PgZoneAndElb
    \/ PgOdd
    \/ PgZmon
    \/ PgUseEbs
    \/ PgEbsSettings
    \/ PgFsAndPasswords
    \/ PgKms
    \/ PgFinish
    \/ PgGenerateDefinition

----------------------------------------------------------------------------
(* webappmultiregion.py: gather_user_variables *)

\* The characters of an operator's answer to the Application ID prompt.
Repeat(c, n) == [i \in 1..n |-> c]
IdChars(answer) ==
    CASE answer = "hello-world" ->
           <<"h", "e", "l", "l", "o", "-", "w", "o", "r", "l", "d">>
      [] answer = "my_app" -> <<"m", "y", "_", "a", "p", "p">>
      [] answer = "2app" -> <<"2", "a", "p", "p">>
      [] answer = "-app" -> <<"-", "a", "p", "p">>
      [] answer = "a-sixty-character-application-id-that-is-just-within-limit-x" ->
           Repeat("a", 60)
      [] answer = "a-sixty-one-character-application-id-that-is-beyond-the-limit" ->
           Repeat("a", 61)

Letters == {"a", "d", "e", "h", "l", "m", "o", "p", "r", "w", "y"}
Digits == {"2"}

\* re.match('^[a-zA-Z][-a-zA-Z0-9]*$', value)
MatchesIdRegex(chars) ==
    /\ Len(chars) >= 1
    /\ chars[1] \in Letters
    /\ \A i \in 2..Len(chars) : chars[i] \in Letters \cup Digits \cup {"-"}

\* _helper.check_value(max_length, regex): the value is accepted if it is no
\* longer than max_length and matches; else a usage error, and click asks again.
check_value(max_length, chars) == Len(chars) <= max_length /\ MatchesIdRegex(chars)

\* The length limit passed on line 143.
ApplicationIdMaxLength == 60

\* "".join([x.title() for x in application_id.split('-')]) (line 161).
Camel(application_id) ==
    CASE application_id = "hello-world" -> "HelloWorld"
      [] application_id = "a-sixty-character-application-id-that-is-just-within-limit-x"
           -> "ASixtyCharacterApplicationIdThatIsJustWithinLimitX"

\* click's type=int: the answers it converts, and to what.
IsIntText(answer) == answer \in {"8080", "70000", "-1"}
IntOfText(answer) ==
    CASE answer = "8080" -> 8080
      [] answer = "70000" -> 70000
      [] answer = "-1" -> 0 - 1

\* 'pierone' in docker_image (line 149).
ContainsPierone(image) == image = "pierone.example.org/myteam/myapp"

\* name.rfind('.') on a name given as its pieces, each "." or "/" or a run of
\* other characters: the index of the last "." piece, 0 if there is none.
\* The character index is > 0 iff the piece index is > 1.
RfindDot(name) ==
    IF \E i \in 1..Len(name) : name[i] = "."
    THEN CHOOSE i \in 1..Len(name) :
           name[i] = "." /\ \A j \in (i + 1)..Len(name) : name[j] # "."
    ELSE 0

\* Line 168: '{}-base.yaml'.format(name[:rfind] if rfind > 0 else name).
BaseFileName(name) ==
    (IF RfindDot(name) > 1 THEN SubSeq(name, 1, RfindDot(name) - 1) ELSE name)
    \o <<"-base", ".", "yaml">>

----------------------------------------------------------------------------
(* Specification SpecMulti: webappmultiregion.gather_user_variables and   *)
(* generate_definition, step by step                                      *)

\* The longest definition file name, in pieces, and the rejected answers
\* an operator gives at most.
MaxNameLen == 4
MaxRejects == 1

NamePieces == {"app", ".", "/"}

\* A path that can name a file: its last component has a character other
\* than dots.
IsFilePath(name) ==
    /\ Len(name) >= 1
    /\ name[Len(name)] # "/"
    /\ \E i \in 1..Len(name) :
         /\ name[i] \notin {".", "/"}
         /\ \A j \in i..Len(name) : name[j] # "/"

DefinitionFiles ==
    {n \in UNION {[1..k -> NamePieces] : k \in 1..MaxNameLen} : IsFilePath(n)}

IdAnswers ==
    {"hello-world", "my_app", "2app", "-app",
     "a-sixty-character-application-id-that-is-just-within-limit-x",
     "a-sixty-one-character-application-id-that-is-beyond-the-limit"}

PortAnswers == {"8080", "70000", "-1", "http"}

MrInit ==
    /\ mr_pc = "application_id"
    /\ \E n \in DefinitionFiles : mr_vars = [definition_file |-> PyStr(n)]
    /\ mr_rejects = 0
    /\ mr_files = {}
    /\ mr_open = {}
    /\ mr_out = <<>>
    /\ mr_result = <<>>

MrOff ==
    /\ mr_pc = "off"
    /\ mr_vars = EmptyDict
    /\ mr_rejects = 0
    /\ mr_files = {}
    /\ mr_open = {}
    /\ mr_out = <<>>
    /\ mr_result = <<>>

\* Lines 142-143: an Application ID the validator accepts.
MrApplicationId ==
    /\ mr_pc = "application_id"
    /\ \E answer \in IdAnswers :
         /\ check_value(ApplicationIdMaxLength, IdChars(answer))
         /\ mr_vars' = Prompt(mr_vars, "application_id", PyStr(answer))
    /\ mr_pc' = "docker_image"
    /\ UNCHANGED <<mr_rejects, mr_files, mr_open, mr_out, mr_result, mrOthers>>

\* Lines 142-143: an Application ID the validator rejects; it is asked again.
MrApplicationIdRejected ==
    /\ mr_pc = "application_id"
    /\ mr_rejects < MaxRejects
    /\ \E answer \in IdAnswers :
         ~check_value(ApplicationIdMaxLength, IdChars(answer))
    /\ mr_rejects' = mr_rejects + 1
    /\ UNCHANGED <<mr_pc, mr_vars, mr_files, mr_open, mr_out, mr_result, mrOthers>>

\* Lines 144-145: the docker image.
MrDockerImage ==
    /\ mr_pc = "docker_image"
    /\ \E image \in {"stups/hello-world", "pierone.example.org/myteam/myapp"} :
         mr_vars' = Prompt(mr_vars, "docker_image", PyStr(image))
    /\ mr_pc' = "http_port"
    /\ UNCHANGED <<mr_rejects, mr_files, mr_open, mr_out, mr_result, mrOthers>>

\* Line 146: the HTTP port, any answer that type=int converts.
MrHttpPort ==
    /\ mr_pc = "http_port"
    /\ \E answer \in PortAnswers :
         /\ IsIntText(answer)
         /\ mr_vars' = Prompt(mr_vars, "http_port", PyInt(IntOfText(answer)))
    /\ mr_pc' = "mint_bucket"
    /\ UNCHANGED <<mr_rejects, mr_files, mr_open, mr_out, mr_result, mrOthers>>

\* Line 146: an answer that is no integer; it is asked again.
MrHttpPortRejected ==
    /\ mr_pc = "http_port"
    /\ mr_rejects < MaxRejects
    /\ \E answer \in PortAnswers : ~IsIntText(answer)
    /\ mr_rejects' = mr_rejects + 1
    /\ UNCHANGED <<mr_pc, mr_vars, mr_files, mr_open, mr_out, mr_result, mrOthers>>

\* Lines 147-165: health check path, instance type, mint bucket, load
\* balancer scheme, the camel-case id and the hosted zone.
MrMintSchemeZone ==
    /\ mr_pc = "mint_bucket"
    /\ \E oauth \in BOOLEAN, scheme \in {"internal"}, domain \in {None} :
         LET v1 == Prompt(mr_vars, "http_health_check_path", PyStr("/"))
             v2 == Prompt(v1, "instance_type", PyStr("t2.micro"))
             v3 == IF ContainsPierone(v2["docker_image"].s) \/ oauth
                   THEN Prompt(v2, "mint_bucket", PyStr("mint-bucket"))
                   ELSE DictSet(v2, "mint_bucket", None)
             v4 == Prompt(v3, "loadbalancer_scheme", PyStr(scheme))
             v5 == DictSet(v4, "application_id_camel",
                           PyStr(Camel(v4["application_id"].s)))
             zone == WithTrailingDot(IF Truthy(domain) THEN domain.s
                                     ELSE "example.com")
         IN  /\ ContainsPierone(v2["docker_image"].s) => oauth
             /\ mr_vars' = DictSet(v5, "hosted_zone", PyStr(zone))
    /\ mr_pc' = "open"
    /\ UNCHANGED <<mr_rejects, mr_files, mr_open, mr_out, mr_result, mrOthers>>

\* Lines 167-171: the base file is opened for writing (open may fail).
MrOpenBase ==
    /\ mr_pc = "open"
    /\ \E opened \in BOOLEAN :
         IF opened
         THEN /\ mr_open' = mr_open \cup {BaseFileName(mr_vars["definition_file"].s)}
              /\ mr_pc' = "write"
         ELSE /\ mr_pc' = "raised"
              /\ UNCHANGED mr_open
    /\ UNCHANGED <<mr_vars, mr_rejects, mr_files, mr_out, mr_result, mrOthers>>

\* Line 172 and the end of the with block: the rendered BASE_TEMPLATE is
\* written (the write may fail) and the handle closed either way.
MrWriteBase ==
    /\ mr_pc = "write"
    /\ LET name == BaseFileName(mr_vars["definition_file"].s)
           base_yaml == pystache_render(BASE_TEMPLATE, mr_vars)
       IN  /\ \E written \in BOOLEAN :
                IF written
                THEN /\ mr_files' = mr_files \cup {[name |-> name, text |-> base_yaml]}
                     /\ mr_pc' = "return"
                ELSE /\ mr_pc' = "raised"
                     /\ UNCHANGED mr_files
           /\ mr_open' = mr_open \ {name}
    /\ UNCHANGED <<mr_vars, mr_rejects, mr_out, mr_result, mrOthers>>

\* Lines 174-177: the hint is printed and the mapping returned.
MrReturn ==
    /\ mr_pc = "return"
    /\ mr_result' = <<mr_vars>>
    /\ mr_pc' = "returned"
    /\ UNCHANGED <<mr_vars, mr_rejects, mr_files, mr_open, mr_out, mrOthers>>

\* Lines 180-182: generate_definition on the returned mapping.
MrGenerateDefinition ==
    /\ mr_pc = "returned"
    /\ mr_out' = mr_generate_definition(mr_result[1])
    /\ mr_pc' = "generated"
    /\ UNCHANGED <<mr_vars, mr_rejects, mr_files, mr_open, mr_result, mrOthers>>

MrNext ==
    \/ MrApplicationId
    \/ MrApplicationIdRejected
    \/ MrDockerImage
    \/ MrHttpPort
    \/ MrHttpPortRejected
    \/ MrMintSchemeZone
    \/ MrOpenBase
    \/ MrWriteBase
    \/ MrReturn
    \/ MrGenerateDefinition

----------------------------------------------------------------------------
(* Specifications *)

InitDefaults == DvInit /\ RgOff /\ RnOff /\ PgOff /\ MrOff

SpecDefaults == InitDefaults /\ [][DvNext]_vars

InitRegistry == RgInit /\ DvOff /\ RnOff /\ PgOff /\ MrOff

SpecRegistry == InitRegistry /\ [][RgNext]_vars

InitRender == RnInit /\ DvOff /\ RgOff /\ PgOff /\ MrOff

SpecRender == InitRender /\ [][RnNext]_vars

InitGather == PgInit /\ DvOff /\ RgOff /\ RnOff /\ MrOff

SpecGather == InitGather /\ [][PgNext]_vars

InitMulti == MrInit /\ DvOff /\ RgOff /\ RnOff /\ PgOff

SpecMulti == InitMulti /\ [][MrNext]_vars

----------------------------------------------------------------------------
(* C1: set_default_variables *)

\* The default the table declares for key k.
DeclaredDefault(k) ==
    DEFAULTS[CHOOSE i \in 1..Len(DEFAULTS) : DEFAULTS[i][1] = k][2]

\* C1: after set_default_variables every default key is present, a key the
\* caller passed keeps its value (None and False included), an absent key has
\* its declared default, no other key appears or disappears, and applying
\* the step again changes nothing.
C1_DefaultsFillOnlyAbsentKeys ==
    dv_calls >= 1 =>
        /\ DOMAIN dv_vars = (DOMAIN dv_in) \cup DefaultKeys
        /\ \A k \in DOMAIN dv_in : dv_vars[k] = dv_in[k]
        /\ \A k \in DefaultKeys \ DOMAIN dv_in : dv_vars[k] = DeclaredDefault(k)
        /\ set_default_variables(dv_vars) = dv_vars

\* C1 witness: applied twice to a mapping that passed use_ebs = False and a
\* key the table does not know.
C1_Witness ==
    /\ dv_calls = 2
    /\ "use_ebs" \in DOMAIN dv_in
    /\ dv_in["use_ebs"] = PyBool(FALSE)
    /\ "definition_file" \in DOMAIN dv_in
    /\ dv_vars["use_ebs"] = PyBool(FALSE)
    /\ dv_vars["volume_size"] = PyInt(10)

----------------------------------------------------------------------------
(* C2, C3: get_latest_spilo_image *)

RgBody == rg_response.body

RgWellFormed(i) == RgBody[i].has_name /\ RgBody[i].has_created

RgImageOf(i) == <<SPILO_IMAGE_ADDRESS, ":">> \o RgBody[i].name

\* Entry j is scanned before entry i: created later, or as late and listed first.
RgBefore(j, i) ==
    \/ RgBody[j].created > RgBody[i].created
    \/ RgBody[j].created = RgBody[i].created /\ j < i

\* C2: for a non-empty response of entries with name and created, the tag is
\* that of a most recently created entry without SNAPSHOT in its name, and of
\* a most recently created entry overall when every name contains SNAPSHOT.
C2_NewestNonSnapshotSelected ==
    LET idx == 1..Len(RgBody)
        plain == {i \in idx : ~ContainsSnapshot(RgBody[i].name)}
        pool == IF plain # {} THEN plain ELSE idx
    IN  (/\ rg_pc # "start"
         /\ rg_response.kind = "ok"
         /\ RgBody # <<>>
         /\ \A i \in idx : RgWellFormed(i))
        => /\ rg_pc = "returned"
           /\ \E i \in pool :
                 /\ \A j \in pool : RgBody[j].created <= RgBody[i].created
                 /\ rg_result = RgImageOf(i)

\* C2 witness: the spec's example, a release older than a snapshot.
C2_Witness ==
    /\ rg_pc = "returned"
    /\ rg_response.kind = "ok"
    /\ RgBody = << [has_name |-> TRUE, name |-> <<"1.0">>,
                    has_created |-> TRUE, created |-> 1],
                   [has_name |-> TRUE, name |-> <<"2.0-", "SNAPSHOT">>,
                    has_created |-> TRUE, created |-> 2] >>
    /\ rg_result = <<SPILO_IMAGE_ADDRESS, ":", "1.0">>

\* The response is one the claim calls a failure: unreachable, not OK, not
\* JSON, or an entry without name or created.
RgFailure ==
    \/ rg_response.kind \in {"unreachable", "not_ok", "not_json"}
    \/ \E i \in 1..Len(RgBody) : ~RgWellFormed(i)

\* C3 as stated: no error is propagated and every such failure yields "".
C3_Original_EveryMalformedBodyYieldsEmpty ==
    rg_pc # "start" => /\ rg_pc = "returned"
                       /\ RgFailure => rg_result = <<>>

\* The scan reaches an entry without a name: no named non-snapshot entry is
\* scanned before it.
RgNamelessReached ==
    \E i \in 1..Len(RgBody) :
        /\ ~RgBody[i].has_name
        /\ \A j \in 1..Len(RgBody) :
              RgBefore(j, i) => ~RgBody[j].has_name \/ ContainsSnapshot(RgBody[j].name)

\* C3 amended: no error is propagated; the result is "" when the registry is
\* unreachable, answers not OK or not JSON, when an entry lacks created, or
\* when the scan reaches an entry that lacks name; an entry without name
\* that sorts after the first non-snapshot entry is never read and the
\* image reference is returned.
C3_NoErrorPropagates ==
    rg_pc # "start" =>
        /\ rg_pc = "returned"
        /\ rg_result = <<>> <=>
              \/ rg_response.kind \in {"unreachable", "not_ok", "not_json"}
              \/ \E i \in 1..Len(RgBody) : ~RgBody[i].has_created
              \/ RgNamelessReached

\* C3 witness: an entry without name behind a release; the release is returned.
C3_Witness ==
    /\ rg_pc = "returned"
    /\ rg_response.kind = "ok"
    /\ Len(RgBody) = 2
    /\ ~RgBody[1].has_name /\ RgBody[1].has_created
    /\ RgWellFormed(2)
    /\ RgBody[2].created > RgBody[1].created
    /\ rg_result = <<SPILO_IMAGE_ADDRESS, ":", "2.0">>

----------------------------------------------------------------------------
(* C4, C9: postgresapp.gather_user_variables *)

\* No key is left once the keys aliased alias/aws/ebs are excluded.
NoKmsKeyAvailable ==
    \A i \in 1..Len(pg_env.kms_keys) : "alias/aws/ebs" \in pg_env.kms_keys[i].aliases

KmsWanted == "kms" \in DOMAIN pg_confirms /\ pg_confirms["kms"]

\* C4: if the operator asks for KMS encryption and no KMS key is available,
\* gather_user_variables aborts with the usage error: nothing is returned, no
\* password is encrypted and check_s3_bucket is not called; whoever asked for
\* encryption and got past that point had a key; and the flow aborts at no
\* other step.
C4_AbortOnlyWithoutKmsKey ==
    /\ [](/\ pg_pc = "aborted" =>
               /\ KmsWanted /\ NoKmsKeyAvailable
               /\ pg_result = <<>>
               /\ ~pg_s3_checked
               /\ DOMAIN pg_encrypt_calls = {}
               /\ \A k \in DOMAIN pg_vars : pg_vars[k].t # "kms"
          /\ (pg_pc \in {"finish", "returned", "generated"} /\ KmsWanted) => ~NoKmsKeyAvailable)
    /\ [][pg_pc' = "aborted" => pg_pc = "kms"]_vars

\* C4 witness: encryption wanted, the only key is the EBS default key.
C4_Witness ==
    /\ pg_pc = "aborted"
    /\ KmsWanted
    /\ pg_env.kms_keys = <<KeyEbs>>
    /\ pg_result = <<>>

EbsSettingKeys == {"volume_size", "volume_type", "volume_iops", "snapshot_id"}

\* C9: the EBS volume settings are solicited only when use_ebs is true; the
\* use_ebs question comes after instance_type is known; a family outside
\* c3, g2, hi1, i2, m3, r3 gets use_ebs true without the question, a listed
\* family is asked and use_ebs is the answer (false only on a "no").
C9_EbsSettingsOnlyWithUseEbs ==
    /\ pg_asked \cap EbsSettingKeys # {}
         => "use_ebs" \in DOMAIN pg_vars /\ pg_vars["use_ebs"] = PyBool(TRUE)
    /\ "use_ebs" \in DOMAIN pg_confirms => "instance_type" \in DOMAIN pg_vars
    /\ pg_pc \in {"ebs", "fs", "kms", "finish", "returned", "generated", "aborted"} =>
         LET family == InstanceFamily(pg_vars["instance_type"].s)
         IN  IF family \in {"c3", "g2", "hi1", "i2", "m3", "r3"}
             THEN /\ "use_ebs" \in DOMAIN pg_confirms
                  /\ pg_vars["use_ebs"] = PyBool(pg_confirms["use_ebs"])
             ELSE /\ "use_ebs" \notin DOMAIN pg_confirms
                  /\ pg_vars["use_ebs"] = PyBool(TRUE)

\* C9 witness: an m3 instance, the operator declines EBS, no volume setting
\* was asked for.
C9_Witness ==
    /\ pg_pc = "returned"
    /\ pg_vars["instance_type"] = PyStr("M3.medium")
    /\ pg_confirms["use_ebs"] = FALSE
    /\ pg_vars["use_ebs"] = PyBool(FALSE)
    /\ pg_asked \cap EbsSettingKeys = {}
    /\ "instance_type" \in pg_asked

----------------------------------------------------------------------------
(* C5, C6, C7: the rendered templates *)

\* How often piece tok occurs in text.
RECURSIVE Count(_, _)
Count(text, tok) ==
    IF text = <<>> THEN 0
    ELSE (IF Head(text) = tok THEN 1 ELSE 0) + Count(Tail(text), tok)

Has(text, tok) == \E i \in 1..Len(text) : text[i] = tok

\* How often the pieces sub occur in text, in a row.
CountRun(text, sub) ==
    Cardinality({i \in 1..(Len(text) - Len(sub) + 1) :
                    SubSeq(text, i, i + Len(sub) - 1) = sub})

\* The pieces that follow the first occurrence of tok, n of them.
Following(text, tok, n) ==
    LET i == CHOOSE x \in 1..Len(text) : text[x] = tok /\ \A y \in 1..(x - 1) : text[y] # tok
    IN  SubSeq(text, i + 1, i + n)

PgRendered == rn_pc = "rendered" /\ rn_template = "postgres"

EbsLines == {"Ebs:", "VolumeSize: ", "VolumeType: ", "SnapshotId: ", "Iops: "}

\* C5: with use_ebs false the Ebs: block (VolumeSize, VolumeType, SnapshotId,
\* Iops) is omitted and VirtualName: ephemeral0 rendered; with use_ebs true
\* the Ebs: block is rendered and VirtualName: ephemeral0 omitted; for
\* every mapping exactly one of the two follows the /dev/xvdk device name.
C5_EbsXorEphemeral ==
    PgRendered =>
      /\ ("use_ebs" \in DOMAIN rn_vars /\ rn_vars["use_ebs"] = PyBool(FALSE))
           => /\ \A l \in EbsLines : ~Has(rn_out, l)
              /\ Count(rn_out, "VirtualName: ephemeral0") = 1
      /\ ("use_ebs" \in DOMAIN rn_vars /\ rn_vars["use_ebs"] = PyBool(TRUE))
           => /\ Count(rn_out, "Ebs:") = 1
              /\ Following(rn_out, "Ebs:", 4)
                   = <<"VolumeSize: ", Stringify(rn_vars["volume_size"]),
                       "VolumeType: ", Stringify(rn_vars["volume_type"])>>
              /\ ~Has(rn_out, "VirtualName: ephemeral0")
      /\ Count(rn_out, "Ebs:") + Count(rn_out, "VirtualName: ephemeral0") = 1
      /\ Following(rn_out, "- DeviceName: /dev/xvdk", 1)
           \in {<<"Ebs:">>, <<"VirtualName: ephemeral0">>}

\* C5 witness: a render with use_ebs False and one with snapshot and IOPS
\* lines are both reachable; this is the one with use_ebs False.
C5_Witness ==
    /\ PgRendered
    /\ "use_ebs" \in DOMAIN rn_vars
    /\ rn_vars["use_ebs"] = PyBool(FALSE)
    /\ rn_vars["snapshot_id"] = PyStr("snap-1")
    /\ Has(rn_out, "VirtualName: ephemeral0")
    /\ ~Has(rn_out, "SnapshotId: ")

DockerImageSet == "docker_image" \in DOMAIN rn_vars /\ Truthy(rn_vars["docker_image"])

\* C6: with docker_image absent, None or empty the Parameters block
\* declaring ImageVersion is rendered and the source is the ImageVersion
\* value; with a non-empty docker_image the block is omitted and the source
\* is docker_image; exactly one source: line is rendered.
C6_ImageVersionParameterIffNoDockerImage ==
    PgRendered =>
      /\ ~DockerImageSet
           => /\ Following(rn_out, "StackName: spilo", 3)
                   = <<"Parameters:", "- ImageVersion:",
                       "Description: \"Docker image version of spilo.\"">>
              /\ Following(rn_out, "runtime: Docker", 3)
                   = <<"source: \"", Stringify(rn_vars["ImageVersion"]), "\"">>
              /\ ~Has(rn_out, "source: ")
      /\ DockerImageSet
           => /\ ~Has(rn_out, "Parameters:") /\ ~Has(rn_out, "- ImageVersion:")
              /\ Following(rn_out, "runtime: Docker", 2)
                   = <<"source: ", rn_vars["docker_image"].s>>
              /\ ~Has(rn_out, "source: \"")
      /\ Count(rn_out, "source: ") + Count(rn_out, "source: \"") = 1

\* C6 witness: docker_image given, so the parameter block is gone.
C6_Witness ==
    /\ PgRendered
    /\ DockerImageSet
    /\ ~Has(rn_out, "Parameters:")
    /\ Has(rn_out, "pierone.example.org/acid/spilo:1.0")

\* C7: rendering TEMPLATE and BASE_TEMPLATE of the multi-region pattern
\* leaves {{Arguments.ImageVersion}}, {{AccountInfo.Region}} and
\* {{SenzaInfo.StackVersion}} literally in the output, whatever the mapping
\* defines, and the {{ }} delimiters are in force again after each block: no
\* delimiter change and no other placeholder is left in the output, and the
\* placeholders that follow are interpolated.
C7_SecondStagePlaceholdersSurvive ==
    /\ (rn_pc = "rendered" /\ rn_template = "multiregion") =>
         /\ CountRun(rn_out, Stage2ImageVersion) = 2
         /\ CountRun(rn_out, Stage2Region) = 2
         /\ CountRun(rn_out, Stage2StackVersion) = 1
         /\ Count(rn_out, "{{") = 5 /\ Count(rn_out, "}}") = 5
         /\ ~Has(rn_out, "<%") /\ ~Has(rn_out, "%>") /\ ~Has(rn_out, "=")
         /\ Following(rn_out, "application_version: \"", 6)
              = Stage2ImageVersion \o <<"\"">>
         /\ Following(rn_out, "health_check_path: ", 1)
              = <<Interpolate(rn_vars, <<"http_health_check_path">>)>>
         /\ Following(rn_out, "VersionDomain:", 3)
              = <<"Type: standalone", "Zone: \"",
                  Interpolate(rn_vars, <<"hosted_zone">>)>>
    /\ (rn_pc = "rendered" /\ rn_template = "base") =>
         /\ CountRun(rn_out, Stage2Region) = 3
         /\ Count(rn_out, "{{") = 3 /\ Count(rn_out, "}}") = 3
         /\ ~Has(rn_out, "<%") /\ ~Has(rn_out, "%>") /\ ~Has(rn_out, "=")
         /\ Following(rn_out, "- \"", 10)
              = <<"hello-world", "-">> \o Stage2Region
                \o <<".", Interpolate(rn_vars, <<"hosted_zone">>), "\"">>

\* C7 witness: a rendered deployment stack whose mapping defines Arguments,
\* AccountInfo and SenzaInfo itself.
C7_Witness ==
    /\ rn_pc = "rendered" /\ rn_template = "multiregion"
    /\ {"Arguments", "AccountInfo", "SenzaInfo"} \subseteq DOMAIN rn_vars
    /\ CountRun(rn_out, Stage2ImageVersion) = 2
    /\ Has(rn_out, "stups/hello-world")

----------------------------------------------------------------------------
(* C8: the base definition file of the multi-region pattern *)

MrReturned == mr_pc \in {"returned", "generated"}
MrEnded == mr_pc \in {"returned", "generated", "raised"}
MrDefinitionFile == mr_vars["definition_file"].s

\* A path with its final extension removed. The extension starts at the
\* last "." of the last path component; where that component begins with
\* dots (a hidden file), both readings are admitted: the leading dots start
\* an extension, or they do not.
WithoutFinalExtension(name) ==
    LET slashes == {i \in 1..Len(name) : name[i] = "/"}
        start == IF slashes = {} THEN 1
                 ELSE 1 + CHOOSE i \in slashes : \A j \in slashes : j <= i
        first == CHOOSE i \in start..Len(name) :
                   name[i] # "." /\ \A j \in start..(i - 1) : name[j] = "."
        Cut(from) ==
            LET dots == {i \in from..Len(name) : name[i] = "."}
            IN  IF dots = {} THEN name
                ELSE SubSeq(name, 1, (CHOOSE i \in dots : \A j \in dots : j <= i) - 1)
    IN  {Cut(first + 1), Cut(start)}

\* C8: when gather_user_variables of the multi-region pattern returns,
\* exactly one file has been written, named <stem>-base.yaml where <stem>
\* is definition_file with its final extension removed, holding the rendered
\* BASE_TEMPLATE; generate_definition writes no file; and the file handle is
\* closed on every exit path.
C8_OneBaseFileNamedAfterStem ==
    /\ MrReturned =>
         \E stem \in WithoutFinalExtension(MrDefinitionFile) :
           mr_files = {[name |-> stem \o <<"-base", ".", "yaml">>,
                        text |-> pystache_render(BASE_TEMPLATE, mr_result[1])]}
    /\ MrEnded => mr_open = {}

\* C8, what the code does keep: one file, named by line 168's cut at the
\* last "." of the whole path, none written by generate_definition, and no
\* handle left open when the flow has ended.
C8_OneBaseFileNamedByRfind ==
    /\ MrReturned =>
         mr_files = {[name |-> BaseFileName(MrDefinitionFile),
                      text |-> pystache_render(BASE_TEMPLATE, mr_result[1])]}
    /\ mr_pc = "raised" => mr_files = {}
    /\ MrEnded => mr_open = {}

\* C8 witness: definition_file is ../app and the file written is .-base.yaml.
C8_Witness ==
    /\ mr_pc = "generated"
    /\ MrDefinitionFile = <<".", ".", "/", "app">>
    /\ \E f \in mr_files : f.name = <<".", "-base", ".", "yaml">>
    /\ mr_open = {}

----------------------------------------------------------------------------
(* C10: what the multi-region prompts accept *)

ValidPorts == 1..65535

\* C10: an invalid Application ID or port is rejected and asked again, so
\* that on return application_id matches the identifier format within the
\* length limit and http_port is an integer in the valid port range.
C10_ReturnedIdAndPortValid ==
    MrReturned =>
      /\ check_value(ApplicationIdMaxLength, IdChars(mr_vars["application_id"].s))
      /\ mr_vars["http_port"].t = "int"
      /\ mr_vars["http_port"].i \in ValidPorts

\* C10, what the code does keep: the returned application_id passed the
\* validator and the returned http_port is an integer.
C10_ReturnedIdValidPortInteger ==
    MrReturned =>
      /\ check_value(ApplicationIdMaxLength, IdChars(mr_vars["application_id"].s))
      /\ mr_vars["http_port"].t = "int"

\* C10 witness: after a rejected answer the flow returns with port 70000.
C10_Witness ==
    /\ mr_pc = "returned"
    /\ mr_rejects > 0
    /\ mr_vars["http_port"] = PyInt(70000)

----------------------------------------------------------------------------
(* C11: provisioned IOPS *)

\* The flow has returned and the returned mapping has been rendered.
PgGenerated == pg_pc = "generated"
PgReturnedValue(k) == pg_result[1][k]

\* C11: volume_iops is solicited only if use_ebs is true and the chosen
\* volume_type is "io1", and the definition rendered from the mapping that
\* gather_user_variables returns has an Iops: entry only if volume_type is
\* "io1", never for gp2 or standard.
C11_IopsOnlyForIo1 ==
    /\ "volume_iops" \in pg_asked
         => /\ pg_vars["use_ebs"] = PyBool(TRUE)
            /\ pg_vars["volume_type"] = PyStr("io1")
    /\ (PgGenerated /\ Has(pg_out, "Iops: "))
         => PgReturnedValue("volume_type") = PyStr("io1")

\* C11, what the code does keep: the volume_iops prompt is behind use_ebs
\* and volume_type == 'io1', and the Iops: entry is rendered only inside the
\* Ebs block.
C11_IopsSolicitedOnlyForIo1 ==
    /\ "volume_iops" \in pg_asked
         => /\ pg_vars["use_ebs"] = PyBool(TRUE)
            /\ pg_vars["volume_type"] = PyStr("io1")
    /\ (PgGenerated /\ Has(pg_out, "Iops: ")) => Has(pg_out, "Ebs:")

\* C11 witness: a gp2 volume, volume_iops never asked for, and the rendered
\* Ebs block carries the default of 300.
C11_Witness ==
    /\ PgGenerated
    /\ PgReturnedValue("volume_type") = PyStr("gp2")
    /\ "volume_iops" \notin pg_asked
    /\ Has(pg_out, "Iops: ")
    /\ Following(pg_out, "Iops: ", 1) = <<"300">>

----------------------------------------------------------------------------
(* C12: access from the discovered security groups *)

\* The key is in the mapping with a value other than None.
PgSet(k) == k \in DOMAIN pg_vars /\ Truthy(pg_vars[k])

\* The operator answered yes to the confirmation named label.
PgConsented(label) == label \in DOMAIN pg_confirms /\ pg_confirms[label]

\* The zmon ingress rules of SpiloMemberSG are in the rendered definition.
ZmonIngressRendered ==
    \E i \in 1..Len(pg_out) :
      /\ pg_out[i] = "SourceSecurityGroupId: \""
      /\ pg_out[i + 1] = Stringify(PgReturnedValue("zmon_sg_id"))
      /\ Truthy(PgReturnedValue("zmon_sg_id"))

\* C12: odd_sg_id is set only if the Odd group was found and the operator
\* confirmed; zmon_sg_id is set, and the zmon ingress rules rendered, only if
\* at least one zmon group was found and the operator answered yes to the
\* zmon question; on a no the key stays unset.
C12_AccessOnlyOnConsent ==
    /\ PgSet("odd_sg_id") => pg_env.odd_sg # "" /\ PgConsented("odd")
    /\ PgSet("zmon_sg_id") => Len(pg_env.zmon_sgs) >= 1 /\ PgConsented("zmon")
    /\ (PgGenerated /\ ZmonIngressRendered) => PgConsented("zmon")

\* C12, what the code does keep: odd_sg_id needs the group found and a yes;
\* zmon_sg_id needs a group found and the question asked, whatever the answer.
C12_OddOnConsentZmonWhenFound ==
    /\ PgSet("odd_sg_id") => pg_env.odd_sg # "" /\ PgConsented("odd")
    /\ PgSet("zmon_sg_id")
         => Len(pg_env.zmon_sgs) >= 1 /\ "zmon" \in DOMAIN pg_confirms
    /\ (PgGenerated /\ ZmonIngressRendered) => Len(pg_env.zmon_sgs) >= 1

\* C12 witness: one zmon group found, the operator answers no, and the
\* rendered SpiloMemberSG admits the group all the same.
C12_Witness ==
    /\ PgGenerated
    /\ pg_env.zmon_sgs = <<"sg-zmon-1">>
    /\ pg_confirms["zmon"] = FALSE
    /\ PgReturnedValue("zmon_sg_id") = PyStr("sg-zmon-1")
    /\ ZmonIngressRendered

----------------------------------------------------------------------------
(* C13: KMS encryption of the passwords *)

\* The caller passed no kms_arn.
NoKmsPrefilled == "kms_arn" \notin DOMAIN pg_given

PasswordKeys(d) == {k \in DOMAIN d : IsPasswordKey(k)}

\* The key whose id the operator selected, among those list_kms_keys gave.
SelectedKeys ==
    {pg_env.kms_keys[i] : i \in {j \in 1..Len(pg_env.kms_keys) :
                                   pg_env.kms_keys[j].KeyId = pg_env.kms_keyid}}

KmsStatementRendered ==
    /\ Has(pg_out, "- \"kms:Decrypt\"")
    /\ Has(pg_out, "- \"kms:Encrypt\"")

\* What holds of a flow that has returned, given no pre-filled kms_arn.
C13_Returned ==
    (NoKmsPrefilled /\ pg_pc \in {"returned", "generated"}) =>
      /\ {"pgpassword_superuser", "pgpassword_standby", "pgpassword_admin"}
           \cup PasswordKeys(pg_given) = PasswordKeys(pg_vars)
      /\ IF PgConsented("kms")
         THEN /\ \A k \in PasswordKeys(pg_vars) :
                   /\ pg_vars[k].t = "kms"
                   /\ pg_vars[k].key = pg_env.kms_keyid
              /\ DOMAIN pg_encrypt_calls = PasswordKeys(pg_vars)
              /\ \A k \in DOMAIN pg_encrypt_calls : pg_encrypt_calls[k] = 1
              /\ \E key \in SelectedKeys :
                   /\ SelectedKeys = {key}
                   /\ "alias/aws/ebs" \notin key.aliases
                   /\ pg_vars["kms_arn"] = PyStr(key.Arn)
         ELSE /\ \A k \in PasswordKeys(pg_vars) : pg_vars[k].t = "str"
              /\ DOMAIN pg_encrypt_calls = {}
              /\ pg_vars["kms_arn"] = None
      /\ pg_pc = "generated" =>
           /\ KmsStatementRendered <=> PgConsented("kms")
           /\ PgConsented("kms")
                => /\ Has(pg_out, "Resource:")
                   /\ Following(pg_out, "Resource:", 2)
                        = <<"- ", pg_vars["kms_arn"].s>>

\* What the KMS step and the final defaults do to the passwords.
C13_Step ==
    /\ (pg_pc = "kms" /\ pg_pc' = "finish" /\ NoKmsPrefilled) =>
         IF pg_confirms'["kms"]
         THEN \A k \in PasswordKeys(pg_vars) :
                /\ pg_vars'[k].t = "kms"
                /\ pg_vars'[k].plain = pg_vars[k]
         ELSE pg_vars' = pg_vars /\ pg_encrypt_calls' = pg_encrypt_calls
    /\ pg_pc = "finish" =>
         /\ \A k \in PasswordKeys(pg_vars) : pg_vars'[k] = pg_vars[k]
         /\ pg_encrypt_calls' = pg_encrypt_calls

\* C13: without a pre-filled kms_arn, if the operator opts into encryption
\* and a usable key exists, then on return every pgpassword_ entry is the
\* ciphertext of its plaintext under the selected key, each encrypted once,
\* and kms_arn is the selected key's ARN; if the operator declines, no
\* password is changed, encrypt is never called and kms_arn is None; the
\* rendered policy has the kms statement exactly when they are encrypted.
C13_PasswordsEncryptedIffKmsChosen == []C13_Returned /\ [][C13_Step]_vars

\* C13 witness: the second usable key is selected, and a password the caller
\* passed is encrypted under it with the statement rendered for its ARN.
C13_Witness ==
    /\ pg_pc = "generated"
    /\ NoKmsPrefilled
    /\ pg_confirms["kms"]
    /\ pg_env.kms_keyid = "key-2"
    /\ "pgpassword_extra" \in DOMAIN pg_given
    /\ pg_vars["pgpassword_extra"] = [t |-> "kms", key |-> "key-2",
                                      plain |-> PyStr("extra")]
    /\ pg_encrypt_calls["pgpassword_extra"] = 1
    /\ KmsStatementRendered
    /\ Has(pg_out, "arn:aws:kms:key-2")

----------------------------------------------------------------------------
(* C14: the image reference names a tag of the response *)

\* The result is "" or the address with the name of an entry of the response.
RgResultEmptyOrNamed ==
    \/ rg_result = <<>>
    \/ \E i \in 1..Len(RgBody) : RgBody[i].has_name /\ rg_result = RgImageOf(i)

RgOkEmptyList == rg_response.kind = "ok" /\ RgBody = <<>>

\* C14: for every registry outcome the result of get_latest_spilo_image is
\* the empty string or SPILO_IMAGE_ADDRESS + ":" + the name of an entry
\* present in the response; an OK response with an empty list yields the
\* empty string, never a reference with a tag that no entry has.
C14_ResultEmptyOrTagOfAnEntry ==
    rg_pc = "returned" =>
      /\ RgResultEmptyOrNamed
      /\ RgOkEmptyList => rg_result = <<>>

\* C14, what the code does keep: for every outcome other than an OK response
\* with an empty list, the result is "" or names an entry of the response.
C14_TagOfAnEntryUnlessEmptyList ==
    (rg_pc = "returned" /\ ~RgOkEmptyList) => RgResultEmptyOrNamed

\* C14 witness: an OK response with an empty list, and the reference returned
\* carries the tag None.
C14_Witness ==
    /\ rg_pc = "returned"
    /\ RgOkEmptyList
    /\ rg_result = <<SPILO_IMAGE_ADDRESS, ":", "None">>

====
